---- MODULE Spec2Model ----
(***************************************************************************)
(* Model of the gitdiagram backend router (backend/app/routers/generate.py)*)
(* and of the Azure DevOps snapshot service it calls.                      *)
(*                                                                         *)
(* Text is modelled as a sequence of one-character strings, so that the    *)
(* substring tests, replacements, slices and the click regular expression  *)
(* of the source operate on characters as they do in Python.               *)
(***************************************************************************)
EXTENDS Integers, Sequences, FiniteSets, TLC

VARIABLES cache, last, nreq, run, rw

vars == <<cache, last, nreq, run, rw>>

(***************************************************************************)
(* Bounds of the model.                                                    *)
(***************************************************************************)
MaxChunks == 2
MaxPieces == 3
MaxPathLen == 3
MaxRequests == 3

(***************************************************************************)
(* String literals of the source.                                          *)
(***************************************************************************)
BAD_INSTRUCTIONS == <<"B","A","D","_","I","N","S","T","R","U","C","T","I","O","N","S">>
\* The backquote character is written "BQ": a TLA+ string cannot hold it.
FenceMermaid == <<"BQ","BQ","BQ","m","e","r","m","a","i","d">>
Fence == <<"BQ","BQ","BQ">>
start_tag == <<"<","c","o","m","p","o","n","e","n","t","_","m","a","p","p","i","n","g",">">>
end_tag == <<"<","/","c","o","m","p","o","n","e","n","t","_","m","a","p","p","i","n","g",">">>
ClickLit == <<"c","l","i","c","k"," ">>
AzureHost == <<"h","t","t","p","s",":","/","/","d","e","v",".","a","z","u","r","e",".","c","o","m","/">>
GitSeg == <<"/","_","g","i","t","/">>
PathQ == <<"?","p","a","t","h","=">>
VersionQ == <<"&","v","e","r","s","i","o","n","=","G","B">>
ContentsQ == <<"&","_","a","=","c","o","n","t","e","n","t","s">>
GithubHost == <<"h","t","t","p","s",":","/","/","g","i","t","h","u","b",".","c","o","m","/">>
Blob == <<"b","l","o","b">>
Tree == <<"t","r","e","e">>
RefsHeads == <<"r","e","f","s","/","h","e","a","d","s","/">>
Main == <<"m","a","i","n">>
Dev == <<"d","e","v">>
Acme == <<"a","c","m","e">>
Widgets == <<"w","i","d","g","e","t","s">>
Fastapi == <<"f","a","s","t","a","p","i">>
Slash == <<"/">>
DQ == <<"\"">>
SQ == <<"'">>

(***************************************************************************)
(* Python string primitives used by the source.                            *)
(***************************************************************************)
Min(a, b) == IF a < b THEN a ELSE b
Max(a, b) == IF a > b THEN a ELSE b

\* Python: m in s
Contains(s, m) ==
    \E i \in 0..(Len(s) - Len(m)) : SubSeq(s, i + 1, i + Len(m)) = m

\* Python: s.find(m), a 0-based index, or -1 when m does not occur
Find(s, m) ==
    IF Contains(s, m)
    THEN CHOOSE i \in 0..(Len(s) - Len(m)) :
            /\ SubSeq(s, i + 1, i + Len(m)) = m
            /\ \A k \in 0..(i - 1) : SubSeq(s, k + 1, k + Len(m)) # m
    ELSE -1

\* Python: s[a:b], where a negative index counts from the end
PySlice(s, a, b) ==
    LET lo == IF a < 0 THEN Max(a + Len(s), 0) ELSE Min(a, Len(s))
        hi == IF b < 0 THEN Max(b + Len(s), 0) ELSE Min(b, Len(s))
    IN  SubSeq(s, lo + 1, hi)

RECURSIVE ReplaceFrom(_, _, _, _)
ReplaceFrom(s, old, new, i) ==
    IF i > Len(s) THEN <<>>
    ELSE IF i + Len(old) - 1 <= Len(s) /\ SubSeq(s, i, i + Len(old) - 1) = old
         THEN new \o ReplaceFrom(s, old, new, i + Len(old))
         ELSE <<s[i]>> \o ReplaceFrom(s, old, new, i + 1)

\* Python: s.replace(old, new) for a non-empty old
Replace(s, old, new) == ReplaceFrom(s, old, new, 1)

\* Python: s.strip(chars)
Strip(s, chars) ==
    LET keep == {i \in 1..Len(s) : s[i] \notin chars}
    IN  IF keep = {} THEN <<>>
        ELSE SubSeq(s, CHOOSE i \in keep : \A k \in keep : i <= k,
                       CHOOSE j \in keep : \A k \in keep : k <= j)

RECURSIVE SplitFrom(_, _, _)
SplitFrom(s, sep, acc) ==
    IF s = <<>> THEN <<acc>>
    ELSE IF Head(s) = sep
         THEN <<acc>> \o SplitFrom(Tail(s), sep, <<>>)
         ELSE SplitFrom(Tail(s), sep, Append(acc, Head(s)))

\* Python: s.split(sep) for a one-character separator
Split(s, sep) == SplitFrom(s, sep, <<>>)

\* All sequences over S of length at most n
SeqsUpTo(S, n) == UNION {[1..k -> S] : k \in 0..n}

(***************************************************************************)
(* process_click_events: the link rewriter.                                *)
(***************************************************************************)
\* \s of the regular expression, over the characters of the model
IsSpace(c) == c \in {" ", "\n", "\t"}
\* The character classes \s, [^\s"] and [^"] of the pattern
InClass(c, class) ==
    CASE class = "space" -> IsSpace(c)
      [] class = "id" -> ~IsSpace(c) /\ c # "\""
      [] class = "path" -> c # "\""

\* Length of the longest run of characters of a class starting at s[i]
RunLen(s, i, class) ==
    CHOOSE n \in 0..Max(Len(s) - i + 1, 0) :
        /\ \A k \in 0..(n - 1) : InClass(s[i + k], class)
        /\ (i + n > Len(s) \/ ~InClass(s[i + n], class))

NoMatch == [ok |-> FALSE, g1 |-> <<>>, g2 |-> <<>>, end |-> 0]

\* The match of   click ([^\s"]+)\s+"([^"]+)"   anchored at s[i]: each
\* greedy quantifier takes the longest run and backs off one character at a
\* time until the rest of the pattern matches.
MatchAt(s, i) ==
    IF ~(i + 5 <= Len(s) /\ SubSeq(s, i, i + 5) = ClickLit) THEN NoMatch
    ELSE
      LET a == i + 6
          Rest3(p0, p) == p0 + p <= Len(s) /\ s[p0 + p] = "\""
          Rest2(w0, w) ==
              /\ w0 + w <= Len(s) /\ s[w0 + w] = "\""
              /\ \E p \in 1..RunLen(s, w0 + w + 1, "path") :
                     Rest3(w0 + w + 1, p)
          Rest1(k) == \E w \in 1..RunLen(s, a + k, "space") : Rest2(a + k, w)
          Ks == {k \in 1..RunLen(s, a, "id") : Rest1(k)}
      IN  IF Ks = {} THEN NoMatch
          ELSE
            LET k == CHOOSE x \in Ks : \A y \in Ks : y <= x
                Ws == {w \in 1..RunLen(s, a + k, "space") : Rest2(a + k, w)}
                w == CHOOSE x \in Ws : \A y \in Ws : y <= x
                p0 == a + k + w + 1
                Ps == {p \in 1..RunLen(s, p0, "path") : Rest3(p0, p)}
                p == CHOOSE x \in Ps : \A y \in Ps : y <= x
            IN  [ok |-> TRUE,
                 g1 |-> SubSeq(s, a, a + k - 1),
                 g2 |-> SubSeq(s, p0, p0 + p - 1),
                 end |-> p0 + p]

\* "." in path: the whole path is searched, not its last segment
is_file_any_dot(path) == Contains(path, <<".">>)

\* "." in path.split("/")[-1]
is_file(path) ==
    LET parts == Split(path, "/")
    IN  Contains(parts[Len(parts)], <<".">>)

\* The URL built by replace_path for a stripped path
full_url(path, provider, username, repo, branch) ==
    IF provider = "azure"
    THEN LET base == AzureHost \o username \o Slash \o repo \o GitSeg \o repo
         IN  IF is_file(path)
             THEN base \o PathQ \o path \o VersionQ \o branch
             ELSE base \o PathQ \o path \o VersionQ \o branch \o ContentsQ
    ELSE LET base_url == GithubHost \o username \o Slash \o repo
             path_type == IF is_file(path) THEN Blob ELSE Tree
         IN  base_url \o Slash \o path_type \o Slash \o branch \o Slash \o path

\* replace_path(match): the replacement text of one match
replace_path(m, provider, username, repo, branch) ==
    LET path == Strip(m.g2, {"\"", "'"})
    IN  ClickLit \o m.g1 \o <<" ">> \o DQ
          \o full_url(path, provider, username, repo, branch) \o DQ

\* count=1: only the first match is replaced
RECURSIVE SubFrom_first_only(_, _, _, _, _, _)
SubFrom_first_only(s, i, provider, username, repo, branch) ==
    IF i > Len(s) THEN <<>>
    ELSE LET m == MatchAt(s, i)
         IN  IF m.ok
             THEN replace_path(m, provider, username, repo, branch)
                    \o SubSeq(s, m.end + 1, Len(s))
             ELSE <<s[i]>> \o SubFrom_first_only(s, i + 1, provider, username, repo, branch)

RECURSIVE SubFrom(_, _, _, _, _, _)
SubFrom(s, i, provider, username, repo, branch) ==
    IF i > Len(s) THEN <<>>
    ELSE LET m == MatchAt(s, i)
         IN  IF m.ok
             THEN replace_path(m, provider, username, repo, branch)
                    \o SubFrom(s, m.end + 1, provider, username, repo, branch)
             ELSE <<s[i]>> \o SubFrom(s, i + 1, provider, username, repo, branch)

\* re.sub(click_pattern, replace_path, diagram)
process_click_events(diagram, provider, username, repo, branch) ==
    SubFrom(diagram, 1, provider, username, repo, branch)

(***************************************************************************)
(* Requests, snapshots and the snapshot cache.                             *)
(***************************************************************************)
\* ApiRequest; instructions is the text's length, the only thing the
\* handlers look at (len(...) and truthiness); None is written "None".
ApiRequest(provider, username, repo, instructions, api_key, github_pat, azure_pat) ==
    [provider |-> provider, username |-> username, repo |-> repo,
     instructions |-> instructions, api_key |-> api_key,
     github_pat |-> github_pat, azure_pat |-> azure_pat]

\* Python truthiness of an optional string
Truthy(x) == x \notin {"None", ""}

\* The argument tuple lru_cache keys the snapshot on
CacheKey(body) ==
    <<body.provider, body.username, body.repo, body.github_pat, body.azure_pat>>

maxsize == 100

CacheHas(key) == \E i \in 1..Len(cache) : cache[i].key = key
CacheGet(key) == LET i == CHOOSE i \in 1..Len(cache) : cache[i].key = key
                 IN  cache[i].value
\* A hit moves the entry to the most-recent end
CacheTouch(key) ==
    LET i == CHOOSE i \in 1..Len(cache) : cache[i].key = key
    IN  SubSeq(cache, 1, i - 1) \o SubSeq(cache, i + 1, Len(cache)) \o <<cache[i]>>
\* A miss that stores nothing
CachePut_no_store(key, value) == cache

\* A miss stores the result, evicting the least recently used entry when full
CachePut(key, value) ==
    LET kept == IF Len(cache) >= maxsize THEN Tail(cache) ELSE cache
    IN  Append(kept, [key |-> key, value |-> value])

\* AzureDevOpsService.get_default_branch: the branch name without its
\* refs/heads/ prefix, or None when the request fails or names no branch.
\* remote is the defaultBranch field of the reply, <<>> when there is none.
get_default_branch(status_code, remote) ==
    IF status_code = 200 /\ remote # <<>>
    THEN [none |-> FALSE, name |-> Replace(remote, RefsHeads, <<>>)]
    ELSE [none |-> TRUE, name |-> <<>>]

\* AzureDevOpsService.get_repo_file_paths_as_list: the tree text (held as its
\* token count) or ValueError
get_repo_file_paths_as_list(status_code, tree) ==
    IF status_code # 200
    THEN [raised |-> TRUE, msg |-> "Could not fetch repository file tree.", value |-> 0]
    ELSE [raised |-> FALSE, msg |-> "", value |-> tree]

\* AzureDevOpsService.get_repo_readme: the README text (held as its token
\* count), ValueError on 404, Exception otherwise
get_repo_readme(status_code, readme) ==
    IF status_code = 200 THEN [raised |-> FALSE, msg |-> "", value |-> readme]
    ELSE IF status_code = 404
    THEN [raised |-> TRUE, msg |-> "No README found for the specified repository.", value |-> 0]
    ELSE [raised |-> TRUE, msg |-> "Failed to fetch README: 500", value |-> 0]

\* What the forge answers to one uncached get_cached_repo_data call; status 0
\* stands for requests.get raising before any reply
Remote(branch_status, branch, tree_status, tree, readme_status, readme) ==
    [branch_status |-> branch_status, branch |-> branch,
     tree_status |-> tree_status, tree |-> tree,
     readme_status |-> readme_status, readme |-> readme]

\* The body of get_cached_repo_data on a cache miss; GitHubService is taken
\* to answer by the same contract as AzureDevOpsService
fetch_repo_data(o) ==
    LET b == get_default_branch(o.branch_status, o.branch)
        default_branch == IF b.none \/ b.name = <<>> THEN Main ELSE b.name
        file_tree == get_repo_file_paths_as_list(o.tree_status, o.tree)
        readme == get_repo_readme(o.readme_status, o.readme)
    IN  IF o.branch_status = 0
        THEN [raised |-> TRUE, msg |-> "Connection error", value |-> <<>>]
        ELSE IF file_tree.raised THEN [raised |-> TRUE, msg |-> file_tree.msg, value |-> <<>>]
        ELSE IF readme.raised THEN [raised |-> TRUE, msg |-> readme.msg, value |-> <<>>]
        ELSE [raised |-> FALSE, msg |-> "",
              value |-> [default_branch |-> default_branch,
                         file_tree |-> file_tree.value,
                         readme |-> readme.value]]

\* get_cached_repo_data keeping what it had fetched when a later step fails
get_cached_repo_data_partial(body, o) ==
    LET key == CacheKey(body)
    IN  IF CacheHas(key)
        THEN [raised |-> FALSE, msg |-> "", value |-> CacheGet(key),
              cache |-> CacheTouch(key), fetched |-> 0]
        ELSE LET res == fetch_repo_data(o)
             IN  IF res.raised
                 THEN [raised |-> TRUE, msg |-> res.msg, value |-> <<>>,
                       cache |-> CachePut(key, [default_branch |-> Main]),
                       fetched |-> 1]
                 ELSE [raised |-> FALSE, msg |-> "", value |-> res.value,
                       cache |-> CachePut(key, res.value), fetched |-> 1]

\* get_cached_repo_data under lru_cache: the result, the cache afterwards and
\* whether the snapshot provider was called
get_cached_repo_data(body, o) ==
    LET key == CacheKey(body)
    IN  IF CacheHas(key)
        THEN [raised |-> FALSE, msg |-> "", value |-> CacheGet(key),
              cache |-> CacheTouch(key), fetched |-> 0]
        ELSE LET res == fetch_repo_data(o)
             IN  IF res.raised
                 THEN [raised |-> TRUE, msg |-> res.msg, value |-> <<>>,
                       cache |-> cache, fetched |-> 1]
                 ELSE [raised |-> FALSE, msg |-> "", value |-> res.value,
                       cache |-> CachePut(key, res.value), fetched |-> 1]

\* The tokenizer: a text is held as its token count; the newline that joins
\* file tree and README in combined_content counts as one token.
count_tokens(text) == text
combined_content(file_tree, readme) == file_tree + 1 + readme

(***************************************************************************)
(* Stream events and the state of one request.                             *)
(***************************************************************************)
StatusEvent(status, message) == [status |-> status, message |-> message]
ChunkEvent(status, chunk) == [status |-> status, chunk |-> chunk]
ErrorEvent(text, count) == [error |-> [text |-> text, count |-> count]]
CompleteEvent(diagram, explanation, mapping) ==
    [status |-> "complete", diagram |-> diagram,
     explanation |-> explanation, mapping |-> mapping]

IsError(e) == "error" \in DOMAIN e
IsStatus(e, s) == "status" \in DOMAIN e /\ e.status = s
IsTerminal(e) == IsError(e) \/ IsStatus(e, "complete")

ErrTooLong == "Instructions exceed maximum length of 1000 characters"
ErrExample == "Example repos cannot be regenerated"
ErrInvalid == "Invalid or unclear instructions provided"
ErrSoft == "File tree and README combined exceeds token limit (50,000). Current size: {token_count} tokens. This GitHub repository is too large for my wallet, but you can continue by providing your own OpenAI API key."
ErrHard == "Repository is too large (>195k tokens) for analysis. OpenAI o4-mini's max context length is 200k tokens. Current size: {token_count} tokens."
ErrTokenizer == "tokenizer failure"

ExampleRepos == {Fastapi,
                 <<"s","t","r","e","a","m","l","i","t">>,
                 <<"f","l","a","s","k">>,
                 <<"a","p","i","-","a","n","a","l","y","t","i","c","s">>,
                 <<"m","o","n","k","e","y","t","y","p","e">>}

NoBody == ApiRequest("None", <<>>, <<>>, 0, "None", "None", "None")
NoData == [none |-> TRUE]
NoResponse == [none |-> TRUE]
NoRemote == [none |-> TRUE]

Runs == {1, 2}

IdleRun ==
    [kind |-> "idle", pc |-> "idle", body |-> NoBody, response |-> NoResponse,
     repo_data |-> NoData, token_count |-> -1, events |-> <<>>,
     explanation |-> <<>>, full_second_response |-> <<>>,
     component_mapping_text |-> <<>>, mermaid_code |-> <<>>,
     phase |-> 0, nchunks |-> 0, completed |-> 0, calls |-> <<>>,
     fetched |-> 0, counted |-> 0, raised |-> "None", remote |-> NoRemote]

\* The previous request, for statements about consecutive calls; completed
\* in a run counts the phases whose stream has ended normally, raised is the
\* message of the exception the LLM client raised ("None" when it did not),
\* remote is what the forge answered when the request called the provider
NoLast == [kind |-> "none", key |-> <<>>, fetched |-> 0, got |-> FALSE]

Previous(rec) ==
    IF rec.kind = "idle" THEN last
    ELSE [kind |-> rec.kind, key |-> CacheKey(rec.body),
          fetched |-> rec.fetched, got |-> rec.repo_data # NoData]

\* Finish without the return: the generator goes on after the event
Finish_no_return(rec, e) == [rec EXCEPT !.events = Append(@, e)]

Emit(rec, e) == [rec EXCEPT !.events = Append(@, e)]
\* A yield followed by return, or the except clause of event_generator
Finish(rec, e) == [rec EXCEPT !.events = Append(@, e), !.pc = "done"]

(***************************************************************************)
(* POST /generate/stream                                                   *)
(***************************************************************************)
\* generate_stream rejecting instructions of 1000 characters too
generate_stream_ge(r, body, limit) ==
    /\ run[r].pc \in {"idle", "done"}
    /\ nreq < limit
    /\ nreq' = nreq + 1
    /\ run' = [run EXCEPT ![r] =
         IF body.instructions >= 1000
         THEN [IdleRun EXCEPT !.kind = "stream", !.pc = "done", !.body = body,
                              !.response = [error |-> ErrTooLong]]
         ELSE IF body.repo \in ExampleRepos
         THEN [IdleRun EXCEPT !.kind = "stream", !.pc = "done", !.body = body,
                              !.response = [error |-> ErrExample]]
         ELSE [IdleRun EXCEPT !.kind = "stream", !.pc = "fetch", !.body = body,
                              !.response = [stream |-> TRUE]]]
    /\ last' = Previous(run[r])
    /\ UNCHANGED <<cache, rw>>

\* generate_stream up to the point where it returns: the validation checks,
\* then either an error payload or the StreamingResponse whose generator has
\* not run yet.  limit bounds the number of requests of a behaviour.
generate_stream(r, body, limit) ==
    /\ run[r].pc \in {"idle", "done"}
    /\ nreq < limit
    /\ nreq' = nreq + 1
    /\ run' = [run EXCEPT ![r] =
         IF body.instructions > 1000
         THEN [IdleRun EXCEPT !.kind = "stream", !.pc = "done", !.body = body,
                              !.response = [error |-> ErrTooLong]]
         ELSE IF body.repo \in ExampleRepos
         THEN [IdleRun EXCEPT !.kind = "stream", !.pc = "done", !.body = body,
                              !.response = [error |-> ErrExample]]
         ELSE [IdleRun EXCEPT !.kind = "stream", !.pc = "fetch", !.body = body,
                              !.response = [stream |-> TRUE]]]
    /\ last' = Previous(run[r])
    /\ UNCHANGED <<cache, rw>>

\* event_generator yielding started before it looks the snapshot up
FetchSnapshot_started_first(r, o) ==
    /\ run[r].kind = "stream" /\ run[r].pc = "fetch"
    /\ LET res == get_cached_repo_data(run[r].body, o)
           rec == Emit([run[r] EXCEPT !.fetched = @ + res.fetched,
                                      !.remote = IF res.fetched = 1 THEN o ELSE @],
                       StatusEvent("started", "Starting generation process..."))
       IN  /\ cache' = res.cache
           /\ run' = [run EXCEPT ![r] =
                IF res.raised THEN Finish(rec, ErrorEvent(res.msg, -1))
                ELSE [rec EXCEPT !.repo_data = res.value, !.pc = "admit"]]
    /\ UNCHANGED <<last, nreq, rw>>

\* event_generator from its start to its first yield: the snapshot lookup,
\* then the started event, or the error event of the except clause
FetchSnapshot(r, o) ==
    /\ run[r].kind = "stream" /\ run[r].pc = "fetch"
    /\ LET res == get_cached_repo_data(run[r].body, o)
           rec == [run[r] EXCEPT !.fetched = @ + res.fetched,
                                 !.remote = IF res.fetched = 1 THEN o ELSE @]
       IN  /\ cache' = res.cache
           /\ run' = [run EXCEPT ![r] =
                IF res.raised THEN Finish(rec, ErrorEvent(res.msg, -1))
                ELSE Emit([rec EXCEPT !.repo_data = res.value, !.pc = "admit"],
                          StatusEvent("started", "Starting generation process..."))]
    /\ UNCHANGED <<last, nreq, rw>>

\* The admission check with the soft limit applied from 50,000 tokens on
Admission_soft_from_limit(r, tokenizer_raises) ==
    /\ run[r].kind = "stream" /\ run[r].pc = "admit"
    /\ LET d == run[r].repo_data
           token_count == count_tokens(combined_content(d.file_tree, d.readme))
           rec == [run[r] EXCEPT !.counted = @ + 1]
           api_key == run[r].body.api_key
       IN  run' = [run EXCEPT ![r] =
             IF tokenizer_raises THEN Finish(rec, ErrorEvent(ErrTokenizer, -1))
             ELSE IF 50000 <= token_count /\ token_count < 195000 /\ ~Truthy(api_key)
             THEN Finish([rec EXCEPT !.token_count = token_count],
                         ErrorEvent(ErrSoft, token_count))
             ELSE IF token_count > 195000
             THEN Finish([rec EXCEPT !.token_count = token_count],
                         ErrorEvent(ErrHard, token_count))
             ELSE Emit([rec EXCEPT !.token_count = token_count, !.pc = "sent",
                                   !.phase = 1],
                       StatusEvent("explanation_sent",
                                   "Sending explanation request to o4-mini..."))]
    /\ UNCHANGED <<cache, last, nreq, rw>>

\* The admission check whose hard-limit branch yields the error and goes on
Admission_hard_no_return(r, tokenizer_raises) ==
    /\ run[r].kind = "stream" /\ run[r].pc = "admit"
    /\ LET d == run[r].repo_data
           token_count == count_tokens(combined_content(d.file_tree, d.readme))
           rec == [run[r] EXCEPT !.counted = @ + 1]
           api_key == run[r].body.api_key
       IN  run' = [run EXCEPT ![r] =
             IF tokenizer_raises THEN Finish(rec, ErrorEvent(ErrTokenizer, -1))
             ELSE IF 50000 < token_count /\ token_count < 195000 /\ ~Truthy(api_key)
             THEN Finish([rec EXCEPT !.token_count = token_count],
                         ErrorEvent(ErrSoft, token_count))
             ELSE IF token_count > 195000
             THEN Emit([rec EXCEPT !.token_count = token_count, !.pc = "sent",
                                   !.phase = 1],
                       ErrorEvent(ErrHard, token_count))
             ELSE Emit([rec EXCEPT !.token_count = token_count, !.pc = "sent",
                                   !.phase = 1],
                       StatusEvent("explanation_sent",
                                   "Sending explanation request to o4-mini..."))]
    /\ UNCHANGED <<cache, last, nreq, rw>>

\* From the pause after started to the next yield: the token count and the
\* admission check, then explanation_sent or an error event
Admission(r, tokenizer_raises) ==
    /\ run[r].kind = "stream" /\ run[r].pc = "admit"
    /\ LET d == run[r].repo_data
           token_count == count_tokens(combined_content(d.file_tree, d.readme))
           rec == [run[r] EXCEPT !.counted = @ + 1]
           api_key == run[r].body.api_key
       IN  run' = [run EXCEPT ![r] =
             IF tokenizer_raises THEN Finish(rec, ErrorEvent(ErrTokenizer, -1))
             ELSE IF 50000 < token_count /\ token_count < 195000 /\ ~Truthy(api_key)
             THEN Finish([rec EXCEPT !.token_count = token_count],
                         ErrorEvent(ErrSoft, token_count))
             ELSE IF token_count > 195000
             THEN Finish([rec EXCEPT !.token_count = token_count],
                         ErrorEvent(ErrHard, token_count))
             ELSE Emit([rec EXCEPT !.token_count = token_count, !.pc = "sent",
                                   !.phase = 1],
                       StatusEvent("explanation_sent",
                                   "Sending explanation request to o4-mini..."))]
    /\ UNCHANGED <<cache, last, nreq, rw>>

\* The arguments of the phase's call_o4_api_stream call
LLMCall(rec) ==
    LET b == rec.body
        extra == IF b.instructions > 0 THEN "+ADDITIONAL_SYSTEM_INSTRUCTIONS_PROMPT" ELSE ""
    IN  CASE rec.phase = 1 ->
               [phase |-> 1, system_prompt |-> <<"SYSTEM_FIRST_PROMPT", extra>>,
                data |-> [file_tree |-> rec.repo_data.file_tree,
                          readme |-> rec.repo_data.readme,
                          instructions |-> b.instructions],
                api_key |-> b.api_key, reasoning_effort |-> "medium",
                at |-> Len(rec.events)]
          [] rec.phase = 2 ->
               [phase |-> 2, system_prompt |-> <<"SYSTEM_SECOND_PROMPT", "">>,
                data |-> [explanation |-> rec.explanation,
                          file_tree |-> rec.repo_data.file_tree],
                api_key |-> b.api_key, reasoning_effort |-> "low",
                at |-> Len(rec.events)]
          [] rec.phase = 3 ->
               [phase |-> 3, system_prompt |-> <<"SYSTEM_THIRD_PROMPT", extra>>,
                data |-> [explanation |-> rec.explanation,
                          component_mapping |-> rec.component_mapping_text,
                          instructions |-> b.instructions],
                api_key |-> b.api_key, reasoning_effort |-> "low",
                at |-> Len(rec.events)]

\* The streaming status is yielded only after the call has been issued
PhaseStatus_call_first(r) ==
    /\ run[r].kind = "stream" /\ run[r].pc = "sent"
    /\ run' = [run EXCEPT ![r] =
         Emit([@ EXCEPT !.pc = "stream", !.nchunks = 0,
                        !.calls = Append(@, LLMCall(run[r]))],
              CASE @.phase = 1 -> StatusEvent("explanation", "Analyzing repository structure...")
                [] @.phase = 2 -> StatusEvent("mapping", "Creating component mapping...")
                [] @.phase = 3 -> StatusEvent("diagram", "Generating diagram..."))]
    /\ UNCHANGED <<cache, last, nreq, rw>>

\* From the pause after a *_sent event to the next yield: the phase's
\* streaming status
PhaseStatus(r) ==
    /\ run[r].kind = "stream" /\ run[r].pc = "sent"
    /\ run' = [run EXCEPT ![r] =
         Emit([@ EXCEPT !.pc = "call"],
              CASE @.phase = 1 -> StatusEvent("explanation", "Analyzing repository structure...")
                [] @.phase = 2 -> StatusEvent("mapping", "Creating component mapping...")
                [] @.phase = 3 -> StatusEvent("diagram", "Generating diagram..."))]
    /\ UNCHANGED <<cache, last, nreq, rw>>

\* The async for statement is entered: the call is issued and the generator
\* waits for the LLM client
IssueCall(r) ==
    /\ run[r].kind = "stream" /\ run[r].pc = "call"
    /\ run' = [run EXCEPT ![r] =
         [@ EXCEPT !.pc = "stream", !.nchunks = 0,
                   !.calls = Append(@, LLMCall(run[r]))]]
    /\ UNCHANGED <<cache, last, nreq, rw>>

\* One iteration of the async for that puts the chunk in front of the text
\* accumulated so far
RecvChunk_prepend(r, chunk) ==
    /\ run[r].kind = "stream" /\ run[r].pc = "stream"
    /\ run[r].nchunks < MaxChunks
    /\ LET rec == [run[r] EXCEPT !.nchunks = @ + 1]
       IN  run' = [run EXCEPT ![r] =
             CASE rec.phase = 1 ->
                    Emit([rec EXCEPT !.explanation = chunk \o @],
                         ChunkEvent("explanation_chunk", chunk))
               [] rec.phase = 2 ->
                    Emit([rec EXCEPT !.full_second_response = chunk \o @],
                         ChunkEvent("mapping_chunk", chunk))
               [] rec.phase = 3 ->
                    Emit([rec EXCEPT !.mermaid_code = chunk \o @],
                         ChunkEvent("diagram_chunk", chunk))]
    /\ UNCHANGED <<cache, last, nreq, rw>>

\* One iteration of the async for with the accumulated texts held in
\* variables of the module, shared by all runs
RecvChunk_shared(r, chunk) ==
    /\ run[r].kind = "stream" /\ run[r].pc = "stream"
    /\ run[r].nchunks < MaxChunks
    /\ LET phase == run[r].phase
           Add(rec) ==
               CASE phase = 1 -> [rec EXCEPT !.explanation = @ \o chunk]
                 [] phase = 2 -> [rec EXCEPT !.full_second_response = @ \o chunk]
                 [] phase = 3 -> [rec EXCEPT !.mermaid_code = @ \o chunk]
       IN  run' = [q \in Runs |->
             IF q = r
             THEN Emit(Add([run[r] EXCEPT !.nchunks = @ + 1]),
                       ChunkEvent(CASE phase = 1 -> "explanation_chunk"
                                    [] phase = 2 -> "mapping_chunk"
                                    [] phase = 3 -> "diagram_chunk", chunk))
             ELSE IF run[q].kind = "stream" /\ run[q].pc # "done"
             THEN Add(run[q])
             ELSE run[q]]
    /\ UNCHANGED <<cache, last, nreq, rw>>

\* One iteration of the async for: accumulate the chunk and yield it
RecvChunk(r, chunk) ==
    /\ run[r].kind = "stream" /\ run[r].pc = "stream"
    /\ run[r].nchunks < MaxChunks
    /\ LET rec == [run[r] EXCEPT !.nchunks = @ + 1]
       IN  run' = [run EXCEPT ![r] =
             CASE rec.phase = 1 ->
                    Emit([rec EXCEPT !.explanation = @ \o chunk],
                         ChunkEvent("explanation_chunk", chunk))
               [] rec.phase = 2 ->
                    Emit([rec EXCEPT !.full_second_response = @ \o chunk],
                         ChunkEvent("mapping_chunk", chunk))
               [] rec.phase = 3 ->
                    Emit([rec EXCEPT !.mermaid_code = @ \o chunk],
                         ChunkEvent("diagram_chunk", chunk))]
    /\ UNCHANGED <<cache, last, nreq, rw>>

\* The LLM client raises and the except clause starts the stream over: the
\* events of the run so far are dropped
StreamRaise_retract(r, msg) ==
    /\ run[r].kind = "stream" /\ run[r].pc = "stream"
    /\ run' = [run EXCEPT ![r] =
         [@ EXCEPT !.raised = msg, !.pc = "done",
                   !.events = <<ErrorEvent(msg, -1)>>]]
    /\ UNCHANGED <<cache, last, nreq, rw>>

\* The LLM client raises and the call is issued once more
StreamRaise_retry(r, msg) ==
    /\ run[r].kind = "stream" /\ run[r].pc = "stream"
    /\ run' = [run EXCEPT ![r] = [@ EXCEPT !.pc = "call"]]
    /\ UNCHANGED <<cache, last, nreq, rw>>

\* The LLM client raises: the except clause yields the error event
StreamRaise(r, msg) ==
    /\ run[r].kind = "stream" /\ run[r].pc = "stream"
    /\ run' = [run EXCEPT ![r] =
         Finish([@ EXCEPT !.raised = msg], ErrorEvent(msg, -1))]
    /\ UNCHANGED <<cache, last, nreq, rw>>

\* Phase 1 ends and the marker check looks at nothing: phase 2 always follows
Phase1End_no_check(r) ==
    /\ run[r].kind = "stream" /\ run[r].pc = "stream" /\ run[r].phase = 1
    /\ run' = [run EXCEPT ![r] =
         Emit([@ EXCEPT !.pc = "sent", !.phase = 2, !.completed = 1],
              StatusEvent("mapping_sent",
                          "Sending component mapping request to o4-mini..."))]
    /\ UNCHANGED <<cache, last, nreq, rw>>

\* Phase 1 ends normally: the BAD_INSTRUCTIONS check, then mapping_sent
Phase1End(r) ==
    /\ run[r].kind = "stream" /\ run[r].pc = "stream" /\ run[r].phase = 1
    /\ run' = [run EXCEPT ![r] =
         IF Contains(@.explanation, BAD_INSTRUCTIONS)
         THEN Finish([@ EXCEPT !.completed = 1], ErrorEvent(ErrInvalid, -1))
         ELSE Emit([@ EXCEPT !.pc = "sent", !.phase = 2, !.completed = 1],
                   StatusEvent("mapping_sent",
                               "Sending component mapping request to o4-mini..."))]
    /\ UNCHANGED <<cache, last, nreq, rw>>

\* full_second_response[find(start_tag) : find(end_tag)]
extract_component_mapping(text) ==
    PySlice(text, Find(text, start_tag), Find(text, end_tag))

\* Phase 2 ends normally: the mapping extraction, then diagram_sent
Phase2End(r) ==
    /\ run[r].kind = "stream" /\ run[r].pc = "stream" /\ run[r].phase = 2
    /\ run' = [run EXCEPT ![r] =
         Emit([@ EXCEPT !.pc = "sent", !.phase = 3, !.completed = 2,
                        !.component_mapping_text =
                            extract_component_mapping(run[r].full_second_response)],
              StatusEvent("diagram_sent",
                          "Sending diagram generation request to o4-mini..."))]
    /\ UNCHANGED <<cache, last, nreq, rw>>

\* mermaid_code.replace("```mermaid", "").replace("```", "")
strip_fences(text) == Replace(Replace(text, FenceMermaid, <<>>), Fence, <<>>)

\* Phase 3 ends and the marker is looked for before the fences are removed
Phase3End_check_first(r) ==
    /\ run[r].kind = "stream" /\ run[r].pc = "stream" /\ run[r].phase = 3
    /\ LET code == strip_fences(run[r].mermaid_code)
           rec == [run[r] EXCEPT !.mermaid_code = code, !.completed = 3]
           b == run[r].body
       IN  run' = [run EXCEPT ![r] =
             IF Contains(run[r].mermaid_code, BAD_INSTRUCTIONS)
             THEN Finish(rec, ErrorEvent(ErrInvalid, -1))
             ELSE Finish(rec,
                    CompleteEvent(
                      process_click_events(code, b.provider, b.username, b.repo,
                                           rec.repo_data.default_branch),
                      rec.explanation, rec.component_mapping_text))]
    /\ UNCHANGED <<cache, last, nreq, rw>>

\* Phase 3 ends normally: fence removal, the BAD_INSTRUCTIONS check, the link
\* rewriter and the complete event
Phase3End(r) ==
    /\ run[r].kind = "stream" /\ run[r].pc = "stream" /\ run[r].phase = 3
    /\ LET code == strip_fences(run[r].mermaid_code)
           rec == [run[r] EXCEPT !.mermaid_code = code, !.completed = 3]
           b == run[r].body
       IN  run' = [run EXCEPT ![r] =
             IF Contains(code, BAD_INSTRUCTIONS)
             THEN Finish(rec, ErrorEvent(ErrInvalid, -1))
             ELSE Finish(rec,
                    CompleteEvent(
                      process_click_events(code, b.provider, b.username, b.repo,
                                           rec.repo_data.default_branch),
                      rec.explanation, rec.component_mapping_text))]
    /\ UNCHANGED <<cache, last, nreq, rw>>

(***************************************************************************)
(* POST /generate/cost                                                     *)
(***************************************************************************)
\* Python floats are IEEE 754 binary64.  A float is held as [m, e], standing
\* for m * 2^e, with the natural number m as a sequence of limbs of 10 bits,
\* least significant first and no leading zero limb.
Limb == 2^10

RECURSIVE Trim(_)
Trim(a) == IF a # <<>> /\ a[Len(a)] = 0 THEN Trim(SubSeq(a, 1, Len(a) - 1)) ELSE a

\* a * m + c for a number m below 2^20
RECURSIVE MulCarry(_, _, _, _)
MulCarry(a, m, i, c) ==
    IF i > Len(a)
    THEN (IF c = 0 THEN <<>> ELSE <<c % Limb>> \o MulCarry(a, m, i, c \div Limb))
    ELSE LET t == a[i] * m + c
         IN  <<t % Limb>> \o MulCarry(a, m, i + 1, t \div Limb)

RECURSIVE AddCarry(_, _, _, _)
AddCarry(a, b, i, c) ==
    IF i > Len(a) /\ i > Len(b)
    THEN (IF c = 0 THEN <<>> ELSE <<c>>)
    ELSE LET t == (IF i <= Len(a) THEN a[i] ELSE 0)
                    + (IF i <= Len(b) THEN b[i] ELSE 0) + c
         IN  <<t % Limb>> \o AddCarry(a, b, i + 1, t \div Limb)

BigAdd(a, b) == Trim(AddCarry(a, b, 1, 0))
\* a * x for a number x below 2^30
BigMul(a, x) ==
    BigAdd(Trim(MulCarry(a, x % (Limb * Limb), 1, 0)),
           Trim(<<0, 0>> \o MulCarry(a, x \div (Limb * Limb), 1, 0)))

BitLen(a) ==
    IF a = <<>> THEN 0
    ELSE (Len(a) - 1) * 10
           + (CHOOSE k \in 1..10 : 2^(k - 1) <= a[Len(a)] /\ a[Len(a)] < 2^k)
\* Bit i of a, bit 0 being the least significant
Bit(a, i) ==
    IF i \div 10 + 1 > Len(a) THEN 0 ELSE (a[i \div 10 + 1] \div 2^(i % 10)) % 2

ShiftLeft(a, s) ==
    Trim([j \in 1..(s \div 10) |-> 0] \o MulCarry(a, 2^(s % 10), 1, 0))
ShiftRight(a, s) ==
    LET ls == s \div 10
        bs == s % 10
    IN  Trim([j \in 1..Max(Len(a) - ls, 0) |->
                (a[j + ls] \div 2^bs)
                  + (IF j + ls + 1 <= Len(a)
                     THEN (a[j + ls + 1] % 2^bs) * 2^(10 - bs) ELSE 0)])

\* a / 2^s rounded to the nearest natural number, a tie to the even one
RoundShift(a, s) ==
    IF s = 0 THEN a
    ELSE LET q == ShiftRight(a, s)
             more == \E i \in 0..(s - 2) : Bit(a, i) = 1
         IN  IF Bit(a, s - 1) = 1 /\ (more \/ Bit(q, 0) = 1)
             THEN BigAdd(q, <<1>>) ELSE q

\* The float nearest to m * 2^e: 53 significant bits
RoundFloat(m, e) ==
    LET s == Max(BitLen(m) - 53, 0)
        q == RoundShift(m, s)
    IN  IF BitLen(q) > 53 THEN [m |-> ShiftRight(q, 1), e |-> e + s + 1]
        ELSE [m |-> q, e |-> e + s]

\* int * float and float + float
FloatMulInt(x, d) == RoundFloat(BigMul(d.m, x), d.e)
FloatAdd(a, b) ==
    LET e == Min(a.e, b.e)
    IN  RoundFloat(BigAdd(ShiftLeft(a.m, a.e - e), ShiftLeft(b.m, b.e - e)), e)

RECURSIVE BigToInt(_)
BigToInt(a) == IF a = <<>> THEN 0 ELSE a[1] + Limb * BigToInt(Tail(a))

\* The literals 0.0000011 (0x1.27476ca61b882p-20) and 0.0000044
price_in == [m |-> <<130, 110, 166, 475, 628, 4>>, e |-> -72]
price_out == [m |-> <<130, 110, 166, 475, 628, 4>>, e |-> -70]

\* input_cost + output_cost
estimated_cost(file_tree_tokens, readme_tokens) ==
    FloatAdd(FloatMulInt((file_tree_tokens * 2 + readme_tokens) + 3000, price_in),
             FloatMulInt(8000, price_out))

\* The amount cut off after two decimals
cost_string_truncated(estimate) ==
    [cents |-> BigToInt(ShiftRight(Trim(MulCarry(estimate.m, 100, 1, 0)), 0 - estimate.e))]

\* f"${estimated_cost:.2f} USD": the decimal with two fractional digits that
\* is nearest to the float, held as its amount in cents
cost_string(estimate) ==
    [cents |-> BigToInt(RoundShift(Trim(MulCarry(estimate.m, 100, 1, 0)), 0 - estimate.e))]

\* get_generation_cost without its except clause: a failure leaves the handler
\* as an exception
get_generation_cost_no_except(r, body, o, tokenizer_raises, limit) ==
    /\ run[r].pc \in {"idle", "done"}
    /\ nreq < limit
    /\ nreq' = nreq + 1
    /\ last' = Previous(run[r])
    /\ LET res == get_cached_repo_data(body, o)
           rec == [IdleRun EXCEPT !.kind = "cost", !.pc = "done", !.body = body,
                                  !.fetched = res.fetched,
                                  !.remote = IF res.fetched = 1 THEN o ELSE @]
       IN  /\ cache' = res.cache
           /\ run' = [run EXCEPT ![r] =
                IF res.raised THEN [rec EXCEPT !.response = [exception |-> res.msg]]
                ELSE IF tokenizer_raises
                THEN [rec EXCEPT !.repo_data = res.value, !.counted = 1,
                                 !.response = [exception |-> ErrTokenizer]]
                ELSE [rec EXCEPT !.repo_data = res.value, !.counted = 2,
                        !.response =
                          [cost |-> cost_string(estimated_cost(
                                      count_tokens(res.value.file_tree),
                                      count_tokens(res.value.readme)))]]]
    /\ UNCHANGED rw

\* get_generation_cost: the handler has no suspension point, it is one step
get_generation_cost(r, body, o, tokenizer_raises, limit) ==
    /\ run[r].pc \in {"idle", "done"}
    /\ nreq < limit
    /\ nreq' = nreq + 1
    /\ last' = Previous(run[r])
    /\ LET res == get_cached_repo_data(body, o)
           rec == [IdleRun EXCEPT !.kind = "cost", !.pc = "done", !.body = body,
                                  !.fetched = res.fetched,
                                  !.remote = IF res.fetched = 1 THEN o ELSE @]
       IN  /\ cache' = res.cache
           /\ run' = [run EXCEPT ![r] =
                IF res.raised THEN [rec EXCEPT !.response = [error |-> res.msg]]
                ELSE IF tokenizer_raises
                THEN [rec EXCEPT !.repo_data = res.value, !.counted = 1,
                                 !.response = [error |-> ErrTokenizer]]
                ELSE [rec EXCEPT !.repo_data = res.value, !.counted = 2,
                        !.response =
                          [cost |-> cost_string(estimated_cost(
                                      count_tokens(res.value.file_tree),
                                      count_tokens(res.value.readme)))]]]
    /\ UNCHANGED rw

(***************************************************************************)
(* The link rewriter on its own: a diagram is put together from pieces and *)
(* process_click_events is applied to it.                                  *)
(***************************************************************************)
RwIdle == [provider |-> "None", username |-> <<>>, repo |-> <<>>, branch |-> <<>>,
           diagram |-> <<>>, pieces |-> 0, out |-> <<>>, applied |-> FALSE]

AppendPiece(p) ==
    /\ ~rw.applied /\ rw.pieces < MaxPieces
    /\ rw' = [rw EXCEPT !.diagram = @ \o p, !.pieces = @ + 1]
    /\ UNCHANGED <<cache, last, nreq, run>>

Rewrite ==
    /\ ~rw.applied
    /\ rw' = [rw EXCEPT !.applied = TRUE,
                        !.out = process_click_events(rw.diagram, rw.provider,
                                    rw.username, rw.repo, rw.branch)]
    /\ UNCHANGED <<cache, last, nreq, run>>

(***************************************************************************)
(* Inputs of the specifications.                                           *)
(***************************************************************************)
LLMErrors == {"Rate limit exceeded", "Connection error."}

Ok == <<"o","k">>
Directive == ClickLit \o <<"A"," ">> \o DQ \o <<"s","r","c","/","a",".","p","y">> \o DQ

\* The fragments the LLM may deliver in each phase
Chunks(phase) ==
    CASE phase = 1 -> {Ok, <<"B","A","D","_">>, <<"I","N","S","T","R","U","C","T","I","O","N","S">>}
      [] phase = 2 -> {start_tag, end_tag}
      [] phase = 3 -> {FenceMermaid \o <<"\n">> \o Directive \o <<"\n">>,
                       <<"B","A","D","_">> \o Fence,
                       <<"I","N","S","T","R","U","C","T","I","O","N","S">>}
      [] OTHER -> {}

FewChunks(phase) == IF phase \in {1, 2, 3} THEN {Ok} ELSE {}

GoodRemote == Remote(200, RefsHeads \o Dev, 200, 1000, 200, 500)

PipeBodies ==
    {ApiRequest("github", Acme, Widgets, 0, "None", "None", "None"),
     ApiRequest("azure", Acme, Widgets, 12, "sk-user", "None", "pat"),
     ApiRequest("github", Acme, Widgets, 1001, "None", "None", "None"),
     ApiRequest("github", Acme, Fastapi, 0, "None", "None", "None")}

PipeRemotes ==
    {GoodRemote,
     Remote(200, RefsHeads \o Dev, 500, 0, 200, 500),
     Remote(200, RefsHeads \o Dev, 200, 1000, 404, 0)}

TreeSizes == {1000, 49499, 49500, 59499, 194498, 194499, 194500, 199499}

AdmitBodies ==
    {ApiRequest("github", Acme, repo, n, k, "None", "None") :
        repo \in {Widgets, Fastapi}, n \in {0, 1000, 1001},
        k \in {"None", "", "sk-user"}}

AdmitRemotes ==
    {Remote(200, RefsHeads \o Dev, 200, t, 200, 500) : t \in TreeSizes}
      \cup {Remote(0, <<>>, 200, 1000, 200, 500)}

CacheBodies ==
    {ApiRequest("github", Acme, Widgets, 0, "None", "None", "None"),
     ApiRequest("azure", Acme, Widgets, 0, "None", "None", "pat")}

CacheRemotes ==
    {GoodRemote,
     Remote(404, <<>>, 200, 1000, 200, 500),
     Remote(0, <<>>, 200, 1000, 200, 500),
     Remote(200, RefsHeads \o Dev, 500, 0, 200, 500),
     Remote(200, RefsHeads \o Dev, 200, 1000, 404, 0),
     Remote(200, RefsHeads \o Dev, 200, 1000, 500, 0)}

(***************************************************************************)
(* Specifications.                                                         *)
(***************************************************************************)
Init ==
    /\ cache = <<>>
    /\ last = NoLast
    /\ nreq = 0
    /\ run = [r \in Runs |-> IdleRun]
    /\ rw = RwIdle

\* One /stream request, with every LLM behaviour
Next ==
    \/ \E b \in PipeBodies : generate_stream(1, b, 1)
    \/ \E o \in PipeRemotes : FetchSnapshot(1, o)
    \/ \E f \in BOOLEAN : Admission(1, f)
    \/ PhaseStatus(1)
    \/ IssueCall(1)
    \/ \E c \in Chunks(run[1].phase) : RecvChunk(1, c)
    \/ \E m \in LLMErrors : StreamRaise(1, m)
    \/ Phase1End(1)
    \/ Phase2End(1)
    \/ Phase3End(1)

Spec == Init /\ [][Next]_vars

\* One /stream request, with every request body and snapshot size
NextAdmit ==
    \/ \E b \in AdmitBodies : generate_stream(1, b, 1)
    \/ \E o \in AdmitRemotes : FetchSnapshot(1, o)
    \/ \E f \in BOOLEAN : Admission(1, f)
    \/ PhaseStatus(1)
    \/ IssueCall(1)
    \/ \E c \in FewChunks(run[1].phase) : RecvChunk(1, c)
    \/ \E m \in LLMErrors : StreamRaise(1, m)
    \/ Phase1End(1)
    \/ Phase2End(1)
    \/ Phase3End(1)

SpecAdmit == Init /\ [][NextAdmit]_vars

\* A sequence of /cost and /stream requests sharing the snapshot cache
NextCache ==
    \/ \E b \in CacheBodies : generate_stream(1, b, MaxRequests)
    \/ \E b \in CacheBodies, o \in CacheRemotes, f \in BOOLEAN :
          get_generation_cost(1, b, o, f, MaxRequests)
    \/ \E o \in CacheRemotes : FetchSnapshot(1, o)
    \/ \E f \in BOOLEAN : Admission(1, f)
    \/ PhaseStatus(1)
    \/ IssueCall(1)
    \/ \E c \in FewChunks(run[1].phase) : RecvChunk(1, c)
    \/ \E m \in LLMErrors : StreamRaise(1, m)
    \/ Phase1End(1)
    \/ Phase2End(1)
    \/ Phase3End(1)

SpecCache == Init /\ [][NextCache]_vars

\* One /cost request, with snapshots of every size; 2 * tree + readme is
\* 15,000 + k * 100,000 where the exact estimate lies halfway between two cents
TokenTrees ==
    {0, 1, 1000, 7500, 50000, 57500, 100000, 450000, 457500, 500000, 550000, 1000000}
TokenReadmes ==
    {0, 1, 500, 2454, 15000, 115000, 415000, 915000, 1115000, 1315000, 1415000, 1615000}

CostRemotes ==
    {Remote(200, RefsHeads \o Dev, 200, t, 200, d) : t \in TokenTrees, d \in TokenReadmes}

NextCost ==
    \E b \in CacheBodies, o \in CostRemotes, f \in BOOLEAN :
       get_generation_cost(1, b, o, f, 1)

SpecCost == Init /\ [][NextCost]_vars

\* Two /stream runs that interleave at their yields and awaits; the LLM
\* delivers the letter a to run 1 and the letter b to run 2
OwnChunks(r) == IF r = 1 THEN {<<"a">>} ELSE {<<"b">>}

ConcRemotes ==
    {GoodRemote,
     Remote(200, RefsHeads \o Dev, 200, 1000, 404, 0)}

NextConc ==
    \E r \in Runs :
       \/ \E b \in CacheBodies : generate_stream(r, b, 2)
       \/ \E o \in ConcRemotes : FetchSnapshot(r, o)
       \/ \E f \in BOOLEAN : Admission(r, f)
       \/ PhaseStatus(r)
       \/ IssueCall(r)
       \/ \E c \in OwnChunks(r) : RecvChunk(r, c)
       \/ \E m \in LLMErrors : StreamRaise(r, m)
       \/ Phase1End(r)
       \/ Phase2End(r)
       \/ Phase3End(r)

SpecConc == Init /\ [][NextConc]_vars

\* The pieces a diagram is put together from
Pieces ==
    {ClickLit \o <<"A"," ">> \o DQ \o <<"a","/","b",".","c">> \o DQ,
     ClickLit \o <<"B"," ","\n">> \o DQ \o <<"d">> \o DQ,
     ClickLit \o <<"C"," ">> \o SQ \o <<"e",".","f">> \o SQ,
     ClickLit \o <<"D"," ">> \o DQ,
     ClickLit,
     DQ,
     <<"x","\n">>}

InitRewrite ==
    /\ cache = <<>> /\ last = NoLast /\ nreq = 0
    /\ run = [r \in Runs |-> IdleRun]
    /\ \E provider \in {"github", "azure"} :
          rw = [RwIdle EXCEPT !.provider = provider, !.username = Acme,
                              !.repo = Widgets, !.branch = Main]

NextRewrite ==
    \/ \E p \in Pieces : AppendPiece(p)
    \/ Rewrite

SpecRewrite == InitRewrite /\ [][NextRewrite]_vars

\* One directive with every short path
PathChars == {"a", ".", "/", "'"}
Paths == SeqsUpTo(PathChars, MaxPathLen) \ {<<>>}

InitResolve ==
    /\ cache = <<>> /\ last = NoLast /\ nreq = 0
    /\ run = [r \in Runs |-> IdleRun]
    /\ \E provider \in {"github", "azure", "gitlab"}, repo \in {Widgets, Fastapi},
          branch \in {Main, Dev}, path \in Paths :
          rw = [RwIdle EXCEPT !.provider = provider, !.username = Acme,
                    !.repo = repo, !.branch = branch, !.pieces = 1,
                    !.diagram = ClickLit \o <<"A"," ">> \o DQ \o path \o DQ]

NextResolve == Rewrite

SpecResolve == InitResolve /\ [][NextResolve]_vars

(***************************************************************************)
(* Properties of the event stream of one run (specification Spec).         *)
(***************************************************************************)
Events == run[1].events
Streaming == run[1].kind = "stream" /\ run[1].response = [stream |-> TRUE]
LastEvent == Events[Len(Events)]

\* C1: the event sequence of a run holds at most one terminal event
\* (complete or error), nothing is emitted after it, and a run that has
\* ended holds exactly one, as its last event.
C1_OneTerminalEventLast ==
    /\ \A i \in 1..Len(Events) : IsTerminal(Events[i]) => i = Len(Events)
    /\ (Streaming /\ run[1].pc = "done")
          => (Events # <<>> /\ IsTerminal(LastEvent))
    /\ (Events # <<>> /\ IsTerminal(LastEvent)) => run[1].pc = "done"

\* A run ended by an LLM exception after chunks of phase 2 were streamed
C1_Witness ==
    /\ Streaming /\ run[1].pc = "done" /\ run[1].phase = 2
    /\ run[1].nchunks = 2
    /\ LastEvent = ErrorEvent("Rate limit exceeded", -1)

\* The place of an event in the order of the protocol
Rank(e) ==
    IF IsError(e) THEN 12
    ELSE CASE e.status = "started" -> 1
           [] e.status = "explanation_sent" -> 2
           [] e.status = "explanation" -> 3
           [] e.status = "explanation_chunk" -> 4
           [] e.status = "mapping_sent" -> 5
           [] e.status = "mapping" -> 6
           [] e.status = "mapping_chunk" -> 7
           [] e.status = "diagram_sent" -> 8
           [] e.status = "diagram" -> 9
           [] e.status = "diagram_chunk" -> 10
           [] e.status = "complete" -> 11
           [] OTHER -> 0

\* b may directly follow a in   started explanation_sent explanation
\* (explanation_chunk)* mapping_sent ... (diagram_chunk)* complete
Follows(a, b) ==
    \/ b = a + 1
    \/ a \in {4, 7, 10} /\ b = a
    \/ a \in {3, 6, 9} /\ b = a + 2

\* C2: the events of a run are a prefix of the fixed order, possibly followed
\* by the error; each LLM call is issued after its phase's *_sent event and
\* streaming status and before any chunk of its phase.
C2_EventOrder ==
    /\ Events # <<>> => Rank(Events[1]) \in {1, 12}
    /\ \A i \in 1..(Len(Events) - 1) :
          /\ Rank(Events[i]) \in 1..10
          /\ Rank(Events[i + 1]) = 12 \/ Follows(Rank(Events[i]), Rank(Events[i + 1]))
    /\ \A n \in 1..Len(run[1].calls) :
          LET c == run[1].calls[n]
          IN  /\ c.at >= 2 /\ c.at <= Len(Events)
              /\ Rank(Events[c.at - 1]) = 3 * c.phase - 1
              /\ Rank(Events[c.at]) = 3 * c.phase
              /\ \A i \in 1..Len(Events) :
                    Rank(Events[i]) = 3 * c.phase + 1 => i > c.at
    /\ \A i \in 1..Len(Events) :
          Rank(Events[i]) \in {4, 7, 10}
             => \E n \in 1..Len(run[1].calls) :
                   3 * run[1].calls[n].phase + 1 = Rank(Events[i])

\* A completed run with chunks in every phase
C2_Witness ==
    /\ Streaming /\ run[1].pc = "done" /\ IsStatus(LastEvent, "complete")
    /\ Len(run[1].calls) = 3
    /\ \A k \in {4, 7, 10} : \E i \in 1..Len(Events) : Rank(Events[i]) = k

NoPhase2 ==
    /\ \A n \in 1..Len(run[1].calls) : run[1].calls[n].phase = 1
    /\ \A i \in 1..Len(Events) : Rank(Events[i]) \notin 5..11

\* C3 as stated: whenever the accumulated explanation of an ended run contains
\* BAD_INSTRUCTIONS, phase 2 was never reached and the run ended with the
\* invalid-instructions error.
C3_AsStated ==
    (Streaming /\ run[1].pc = "done" /\ Contains(run[1].explanation, BAD_INSTRUCTIONS))
       => (NoPhase2 /\ LastEvent = ErrorEvent(ErrInvalid, -1))

\* C3 amended: an accumulated explanation containing BAD_INSTRUCTIONS never
\* leads to phase 2, and once phase 1's stream has ended normally the run has
\* ended with the invalid-instructions error.
C3_BadInstructionsStopsRun ==
    (Streaming /\ Contains(run[1].explanation, BAD_INSTRUCTIONS))
       => /\ NoPhase2
          /\ run[1].completed >= 1
                => (run[1].pc = "done" /\ LastEvent = ErrorEvent(ErrInvalid, -1))

\* Phase 1 ended normally with the marker split over two chunks
C3_Witness ==
    /\ Streaming /\ run[1].completed = 1 /\ run[1].pc = "done"
    /\ Contains(run[1].explanation, BAD_INSTRUCTIONS)
    /\ Len(Events) = 6

(***************************************************************************)
(* Admission and validation (specification SpecAdmit).                     *)
(***************************************************************************)
\* The token count of the run's snapshot has been taken
Counted == Streaming /\ run[1].token_count >= 0
NoApiKey == run[1].body.api_key \in {"None", ""}
Rejected(text) ==
    /\ run[1].pc = "done"
    /\ LastEvent = ErrorEvent(text, run[1].token_count)
    /\ run[1].calls = <<>>
Admitted ==
    /\ Len(Events) >= 2
    /\ IsStatus(Events[2], "explanation_sent")
    /\ \A i \in 1..Len(Events) :
          IsError(Events[i]) => Events[i].error.text \notin {ErrSoft, ErrHard}

\* C4 as stated: every combined token count of 195,000 or more is rejected
\* with the hard-limit error naming the count, and no LLM call is issued.
C4_HardLimitFrom195000 ==
    (Counted /\ run[1].token_count >= 195000) => Rejected(ErrHard)

\* C5: between the limits a request without api_key is rejected with the
\* budget error naming the count and issues no LLM call, the same count with
\* an api_key is admitted, and a count of at most 50,000 is always admitted.
C5_SoftLimit ==
    /\ (Counted /\ 50000 < run[1].token_count /\ run[1].token_count < 195000
          /\ NoApiKey) => Rejected(ErrSoft)
    /\ (Counted /\ 50000 < run[1].token_count /\ run[1].token_count < 195000
          /\ ~NoApiKey) => Admitted
    /\ (Counted /\ run[1].token_count <= 50000) => Admitted

\* 60,000 tokens without api_key: rejected
C5_Witness ==
    /\ Counted /\ run[1].token_count = 60000 /\ run[1].body.api_key = "None"
    /\ Rejected(ErrSoft)

BudgetError(e) == IsError(e) /\ e.error.text \in {ErrSoft, ErrHard}

\* C6 as stated: the budget error of a rejected run is its only event.
C6_AsStated ==
    (\E i \in 1..Len(Events) : BudgetError(Events[i])) => Len(Events) = 1

\* C6 amended: a run rejected for token budget emits the started event and
\* then the budget error, nothing else, and issues no LLM call.
C6_RejectedAfterStarted ==
    \A i \in 1..Len(Events) :
       BudgetError(Events[i])
          => /\ Len(Events) = 2 /\ i = 2
             /\ IsStatus(Events[1], "started")
             /\ run[1].calls = <<>> /\ run[1].pc = "done"

\* A run rejected at the hard limit
C6_Witness ==
    /\ Counted /\ run[1].token_count = 200000 /\ run[1].body.api_key = "sk-user"
    /\ Len(Events) = 2 /\ Events[2] = ErrorEvent(ErrHard, 200000)

Invalid(body) == body.instructions > 1000 \/ body.repo \in ExampleRepos

\* C7: a request that fails validation gets the error payload and nothing
\* else happens for it: no fetch, no cache entry, no token count, no LLM call,
\* no event; instructions of exactly 1000 characters pass the length check.
C7_ValidationBeforeAnything ==
    /\ (run[1].kind = "stream" /\ Invalid(run[1].body))
          => /\ run[1].pc = "done"
             /\ run[1].response =
                   [error |-> IF run[1].body.instructions > 1000
                              THEN ErrTooLong ELSE ErrExample]
             /\ run[1].fetched = 0 /\ cache = <<>> /\ run[1].counted = 0
             /\ run[1].calls = <<>> /\ Events = <<>>
    /\ (run[1].kind = "stream" /\ run[1].body.instructions = 1000)
          => run[1].response # [error |-> ErrTooLong]
    /\ (run[1].kind = "stream" /\ ~Invalid(run[1].body)) => Streaming

\* A rejected request with 1001 characters of instructions
C7_Witness ==
    /\ run[1].kind = "stream" /\ run[1].body.instructions = 1001
    /\ run[1].response = [error |-> ErrTooLong] /\ run[1].pc = "done"

(***************************************************************************)
(* The snapshot cache over consecutive requests (specification SpecCache). *)
(***************************************************************************)
\* The run is a /stream run past its snapshot lookup, and the request before
\* it was a /cost call with the identical cache key
CostThenStream ==
    /\ Streaming /\ run[1].pc # "fetch"
    /\ last.kind = "cost" /\ last.key = CacheKey(run[1].body)

\* C8 as stated: the two calls trigger exactly one snapshot fetch in total,
\* none of it by the /stream call.
C8_AsStated ==
    CostThenStream => (last.fetched + run[1].fetched = 1 /\ run[1].fetched = 0)

\* C8 amended: when the /cost call obtained the snapshot, the /stream call is
\* served from the cache, with the snapshot the /cost call used, and the two
\* calls trigger at most one fetch in total.
C8_SecondCallFromCache ==
    (CostThenStream /\ last.got)
       => /\ run[1].fetched = 0
          /\ last.fetched + run[1].fetched <= 1
          /\ run[1].repo_data # NoData
          /\ CacheHas(last.key) /\ CacheGet(last.key) = run[1].repo_data

\* A /stream run served from the entry its /cost call fetched
C8_Witness ==
    /\ CostThenStream /\ last.got /\ last.fetched = 1
    /\ run[1].fetched = 0 /\ Len(Events) >= 1

(***************************************************************************)
(* The link rewriter (specifications SpecRewrite and SpecResolve).         *)
(***************************************************************************)
\* The first position from i on whose character is (is not) in a set, or
\* Len(s) + 1 when there is none
FirstIn(s, i, set) ==
    LET hits == {k \in i..Len(s) : s[k] \in set}
    IN  IF hits = {} THEN Len(s) + 1 ELSE CHOOSE k \in hits : \A h \in hits : k <= h
FirstNotIn(s, i, set) ==
    LET hits == {k \in i..Len(s) : s[k] \notin set}
    IN  IF hits = {} THEN Len(s) + 1 ELSE CHOOSE k \in hits : \A h \in hits : k <= h

Whitespace == {" ", "\n", "\t"}

\* The directives click <id> <quoted path> that start at s[i], for a set of
\* admissible quote characters: the id is a non-empty run of characters that
\* are neither whitespace nor one of the quotes, whitespace follows it, and
\* the path is a non-empty run without the quote that encloses it.
DirectiveAt(s, i, quotes) ==
    IF ~(i + 5 <= Len(s) /\ SubSeq(s, i, i + 5) = ClickLit) THEN {}
    ELSE LET w == FirstIn(s, i + 6, Whitespace \cup quotes)
             o == FirstNotIn(s, w, Whitespace)
             e == IF o <= Len(s) THEN FirstIn(s, o + 1, {s[o]}) ELSE Len(s) + 1
         IN  IF /\ w > i + 6 /\ w <= Len(s) /\ s[w] \in Whitespace
                /\ o <= Len(s) /\ s[o] \in quotes
                /\ e <= Len(s) /\ e > o + 1
             THEN {[start |-> i, idEnd |-> w - 1, open |-> o, end |-> e]}
             ELSE {}

\* The directives of a text, leftmost first, none overlapping another
RECURSIVE DirectivesFrom(_, _, _)
DirectivesFrom(s, i, quotes) ==
    IF i > Len(s) THEN <<>>
    ELSE LET D == DirectiveAt(s, i, quotes)
         IN  IF D = {} THEN DirectivesFrom(s, i + 1, quotes)
             ELSE LET d == CHOOSE x \in D : \A y \in D : x.end <= y.end
                  IN  <<d>> \o DirectivesFrom(s, d.end + 1, quotes)

Directives(s, quotes) == DirectivesFrom(s, 1, quotes)

IdOf(s, d) == SubSeq(s, d.start + 6, d.idEnd)
PathOf(s, d) == SubSeq(s, d.open + 1, d.end - 1)
\* The text between the n-th directive and the next one
GapOf(s, D, n) ==
    SubSeq(s, IF n = 0 THEN 1 ELSE D[n].end + 1,
              IF n = Len(D) THEN Len(s) ELSE D[n + 1].start - 1)
IsUrl(p) == Len(p) >= 8 /\ SubSeq(p, 1, 8) = <<"h","t","t","p","s",":","/","/">>

\* A diagram with N directives is rewritten to one with N directives in the
\* same order, each holding a resolved URL in double quotes, and the text
\* outside the directives is the same
RewrittenTotally(quotes) ==
    rw.applied =>
       LET D == Directives(rw.diagram, quotes)
           E == Directives(rw.out, quotes)
       IN  /\ Len(E) = Len(D)
           /\ \A n \in 1..Len(D) :
                 /\ IdOf(rw.out, E[n]) = IdOf(rw.diagram, D[n])
                 /\ rw.out[E[n].open] = "\""
                 /\ E[n].open = E[n].idEnd + 2
                 /\ IsUrl(PathOf(rw.out, E[n]))
                 /\ ~IsUrl(PathOf(rw.diagram, D[n]))
           /\ \A n \in 0..Len(D) : GapOf(rw.out, E, n) = GapOf(rw.diagram, D, n)

\* C9 as stated: every directive whose path is quoted with single or double
\* quotes is replaced by one with a resolved URL, none is left raw, order and
\* surrounding text are kept.
C9_AsStated == RewrittenTotally({"\"", "'"})

\* C9 amended: the same for the directives whose path is quoted with double
\* quotes (the id being any run without whitespace and double quote).
C9_DoubleQuotedRewritten == RewrittenTotally({"\""})

\* Two directives separated by text, both rewritten
C9_Witness ==
    /\ rw.applied /\ Len(Directives(rw.diagram, {"\""})) = 2
    /\ GapOf(rw.diagram, Directives(rw.diagram, {"\""}), 1) = <<"x","\n">>

\* The reference rule: a path is a file iff a "." follows its last "/"
IsFileRef(path) ==
    \E i \in 1..Len(path) :
       path[i] = "." /\ \A j \in (i + 1)..Len(path) : path[j] # "/"

UrlRef(provider, owner, repo, branch, path) ==
    IF provider = "azure"
    THEN AzureHost \o owner \o Slash \o repo \o GitSeg \o repo \o PathQ \o path
           \o VersionQ \o branch \o (IF IsFileRef(path) THEN <<>> ELSE ContentsQ)
    ELSE GithubHost \o owner \o Slash \o repo \o Slash
           \o (IF IsFileRef(path) THEN Blob ELSE Tree)
           \o Slash \o branch \o Slash \o path

\* The path of the one directive of the diagram, without surrounding quotes
TheDirective == Directives(rw.diagram, {"\""})[1]
ThePath == Strip(PathOf(rw.diagram, TheDirective), {"\"", "'"})

\* C10: the URL written for a directive is the reference URL of its provider,
\* owner, repo, branch and path.
C10_UrlIsReference ==
    rw.applied =>
       rw.out = ClickLit \o IdOf(rw.diagram, TheDirective) \o <<" ">> \o DQ
                  \o UrlRef(rw.provider, rw.username, rw.repo, rw.branch, ThePath)
                  \o DQ

\* An Azure directory path with a dot in an earlier segment
C10_Witness ==
    /\ rw.applied /\ rw.provider = "azure"
    /\ ThePath = <<".", "/", "a">>
    /\ Contains(rw.out, ContentsQ)

(***************************************************************************)
(* Failures of the LLM client (specification Spec).                        *)
(***************************************************************************)
NoComplete == \A i \in 1..Len(Events) : ~IsStatus(Events[i], "complete")
Errors == {i \in 1..Len(Events) : IsError(Events[i])}

\* The run that the LLM client's exception ended
RaisedState ==
    run[1].raised # "None"
       => /\ run[1].pc = "done"
          /\ run[1].phase \in {1, 2, 3} /\ run[1].completed = run[1].phase - 1
          /\ Errors = {Len(Events)}
          /\ LastEvent = ErrorEvent(run[1].raised, -1)
          /\ NoComplete

\* The step in which the LLM client raises
RaisedStep ==
    run[1].raised # run[1].raised'
       => /\ run[1].raised = "None"
          /\ run[1].events' = Append(run[1].events, ErrorEvent(run[1].raised', -1))

\* Events are only ever appended while the request is the same
EventsKept ==
    (run[1].kind = "stream" /\ nreq' = nreq)
       => /\ Len(run[1].events') >= Len(run[1].events)
          /\ SubSeq(run[1].events', 1, Len(run[1].events)) = run[1].events

\* C11: when the LLM client raises in any phase, the run ends with exactly
\* one error event, its last, carrying the exception's message; the events
\* emitted before stay as they were and no complete event is emitted.
C11_LLMExceptionAbortsRun == []RaisedState /\ [][RaisedStep /\ EventsKept]_vars

\* The LLM client raised in phase 3 after one diagram chunk
C11_Witness ==
    /\ run[1].raised = "Connection error." /\ run[1].phase = 3
    /\ run[1].nchunks = 1 /\ run[1].completed = 2
    /\ Len(Events) >= 10 /\ IsStatus(Events[Len(Events) - 1], "diagram_chunk")

(***************************************************************************)
(* POST /generate/cost (specification SpecCache).                          *)
(***************************************************************************)
FetchErrors ==
    {"Connection error", "Could not fetch repository file tree.",
     "No README found for the specified repository.", "Failed to fetch README: 500"}

\* C12: a /cost call always returns a payload, {"cost": ...} or
\* {"error": message}; it is the error payload, without a cost, exactly when
\* the snapshot fetch or the token count failed.
C12_CostNeverRaises ==
    run[1].kind = "cost"
       => /\ run[1].pc = "done"
          /\ DOMAIN run[1].response \in {{"cost"}, {"error"}}
          /\ run[1].repo_data = NoData
                => (DOMAIN run[1].response = {"error"}
                      /\ run[1].response.error \in FetchErrors
                      /\ run[1].fetched = 1 /\ run[1].counted = 0)
          /\ (run[1].repo_data # NoData /\ run[1].counted < 2)
                => run[1].response = [error |-> ErrTokenizer]
          /\ DOMAIN run[1].response = {"cost"}
                => (run[1].repo_data # NoData /\ run[1].counted = 2)

\* A /cost call whose README fetch failed, after an earlier request
C12_Witness ==
    /\ run[1].kind = "cost" /\ nreq = 2
    /\ run[1].response = [error |-> "Failed to fetch README: 500"]
    /\ run[1].fetched = 1

(***************************************************************************)
(* The cost estimate (specification SpecCost).                             *)
(***************************************************************************)
\* (2 * file_tree_tokens + readme_tokens + 3000) * 0.0000011
\*    + 8000 * 0.0000044   in units of 10^-7 USD
ExactEstimate(file_tree_tokens, readme_tokens) ==
    (2 * file_tree_tokens + readme_tokens + 3000) * 11 + 8000 * 44

CostReturned == run[1].kind = "cost" /\ DOMAIN run[1].response = {"cost"}

\* C13: the amount a /cost call returns is the value of the formula rounded
\* to two decimals, nothing else: it is a multiple of one cent nearest to the
\* exact value, so no rounding took place before the formatting.
C13_CostIsRoundedFormula ==
    CostReturned
       => LET units == ExactEstimate(run[1].repo_data.file_tree,
                                     run[1].repo_data.readme)
              cents == run[1].response.cost.cents
          IN  /\ cents * 100000 - units <= 50000
              /\ units - cents * 100000 <= 50000

\* 915,000 README tokens: the exact estimate is 1.045 USD and $1.04 is returned
C13_Witness ==
    /\ CostReturned
    /\ run[1].repo_data.file_tree = 0 /\ run[1].repo_data.readme = 915000
    /\ run[1].response.cost.cents = 104

(***************************************************************************)
(* The component mapping (specification Spec).                             *)
(***************************************************************************)
\* The segment from the first start marker up to the first end marker, empty
\* when a marker is missing
MappingSegment(text) ==
    LET i == Find(text, start_tag)
        j == Find(text, end_tag)
    IN  IF i = -1 \/ j = -1 \/ j < i THEN <<>>
        ELSE SubSeq(text, i + 1, j)

\* C14 as stated: once phase 2 has ended, the extracted mapping is the text
\* from the first <component_mapping> marker up to the first
\* </component_mapping> marker, empty when either marker is missing; phase 3
\* is called with it and the complete event reports it.
C14_MappingExtraction ==
    (Streaming /\ run[1].completed >= 2)
       => /\ run[1].component_mapping_text = MappingSegment(run[1].full_second_response)
          /\ \A n \in 1..Len(run[1].calls) :
                run[1].calls[n].phase = 3
                   => run[1].calls[n].data.component_mapping
                         = MappingSegment(run[1].full_second_response)
          /\ \A i \in 1..Len(Events) :
                IsStatus(Events[i], "complete")
                   => Events[i].mapping = MappingSegment(run[1].full_second_response)

(***************************************************************************)
(* The sequence of LLM calls of a run (specification Spec).                *)
(***************************************************************************)
\* The calls whose stream has neither ended nor failed
InFlight ==
    {n \in 1..Len(run[1].calls) :
        run[1].pc # "done" /\ run[1].calls[n].phase > run[1].completed}

CallsInOrder ==
    /\ Len(run[1].calls) <= 3
    /\ \A n \in 1..Len(run[1].calls) : run[1].calls[n].phase = n
    /\ Cardinality(InFlight) <= 1
    /\ run[1].completed \in {Len(run[1].calls), Len(run[1].calls) - 1}

\* A call is issued only when every earlier call's stream has ended normally
\* and the run has not failed
CallIssued ==
    run[1].calls' # run[1].calls
       => /\ run[1].pc # "done" /\ InFlight = {}
          /\ Len(run[1].calls') = Len(run[1].calls) + 1
          /\ SubSeq(run[1].calls', 1, Len(run[1].calls)) = run[1].calls
          /\ run[1].calls'[Len(run[1].calls')].phase = run[1].completed + 1

\* A run that has ended issues no LLM call and no snapshot fetch
EndedStaysEnded ==
    (run[1].kind = "stream" /\ run[1].pc = "done" /\ nreq' = nreq)
       => /\ run[1].calls' = run[1].calls
          /\ run[1].fetched' = run[1].fetched
          /\ run[1].pc' = "done"

\* C15: the LLM calls of a run are issued one at a time in the order phase
\* 1, 2, 3, each at most once and only after the phase before has ended
\* normally, and after a failure the run issues no call and no fetch.
C15_CallsSequentialNoRetry ==
    []CallsInOrder /\ [][CallIssued /\ EndedStaysEnded]_vars

\* The phase-3 call is in flight after two phases that ended normally
C15_Witness ==
    /\ Streaming /\ run[1].pc = "stream" /\ Len(run[1].calls) = 3
    /\ run[1].completed = 2 /\ InFlight = {3} /\ run[1].fetched = 1

(***************************************************************************)
(* The entries of the snapshot cache (specification SpecCache).            *)
(***************************************************************************)
\* The request has carried out its snapshot lookup
Looked == run[1].kind = "cost" \/ (Streaming /\ run[1].pc # "fetch")
FetchFailed == Looked /\ run[1].fetched = 1 /\ run[1].repo_data = NoData
FetchDone == Looked /\ run[1].fetched = 1 /\ run[1].repo_data # NoData

\* The snapshot a forge answer amounts to
SnapshotOf(o) ==
    [default_branch |-> IF o.branch_status = 200 /\ o.branch # <<>>
                        THEN SubSeq(o.branch, Len(RefsHeads) + 1, Len(o.branch))
                        ELSE Main,
     file_tree |-> o.tree, readme |-> o.readme]

\* C16: every cache entry is a complete snapshot of one successful fetch, a
\* branch the forge did not name being stored as "main"; a failed fetch
\* leaves no entry for its key, and the next call with that key calls the
\* provider again.
C16_CacheAtomicity ==
    /\ \A i \in 1..Len(cache) :
          /\ DOMAIN cache[i].value = {"default_branch", "file_tree", "readme"}
          /\ cache[i].value.default_branch # <<>>
          /\ \E o \in CacheRemotes :
                /\ o.branch_status # 0 /\ o.tree_status = 200 /\ o.readme_status = 200
                /\ cache[i].value = SnapshotOf(o)
          /\ \A j \in 1..Len(cache) : cache[j].key = cache[i].key => j = i
    /\ FetchFailed => ~CacheHas(CacheKey(run[1].body))
    /\ FetchDone
          => /\ CacheHas(CacheKey(run[1].body))
             /\ CacheGet(CacheKey(run[1].body)) = SnapshotOf(run[1].remote)
             /\ run[1].repo_data = SnapshotOf(run[1].remote)
    /\ (Looked /\ last.key = CacheKey(run[1].body) /\ last.fetched = 1 /\ ~last.got)
          => run[1].fetched = 1

\* After a request whose fetch failed, the same key is fetched again and the
\* forge names no default branch: the entry holds "main"
C16_Witness ==
    /\ FetchDone /\ run[1].remote.branch_status = 404
    /\ last.key = CacheKey(run[1].body) /\ last.fetched = 1 /\ ~last.got
    /\ CacheGet(CacheKey(run[1].body)).default_branch = Main

(***************************************************************************)
(* The end of phase 3 (specification Spec).                                *)
(***************************************************************************)
\* The texts of the chunk events of one kind, concatenated in order
RECURSIVE ChunksOf(_, _)
ChunksOf(events, status) ==
    IF events = <<>> THEN <<>>
    ELSE (IF IsStatus(Head(events), status) THEN Head(events).chunk ELSE <<>>)
           \o ChunksOf(Tail(events), status)

\* C17: when phase 3 has ended normally and its output without the fence
\* markers contains BAD_INSTRUCTIONS, the run has ended with the
\* invalid-instructions error; no complete event, which alone carries the
\* rewritten diagram, is emitted.
C17_BadDiagramStopsRun ==
    (Streaming /\ run[1].completed = 3
       /\ Contains(strip_fences(ChunksOf(Events, "diagram_chunk")), BAD_INSTRUCTIONS))
       => /\ run[1].pc = "done"
          /\ LastEvent = ErrorEvent(ErrInvalid, -1)
          /\ NoComplete
          /\ Errors = {Len(Events)}

\* The marker comes about only when the fence between its halves is removed
C17_Witness ==
    /\ Streaming /\ run[1].completed = 3
    /\ ~Contains(ChunksOf(Events, "diagram_chunk"), BAD_INSTRUCTIONS)
    /\ Contains(strip_fences(ChunksOf(Events, "diagram_chunk")), BAD_INSTRUCTIONS)
    /\ LastEvent = ErrorEvent(ErrInvalid, -1)

(***************************************************************************)
(* Chunk events and accumulated texts (specification Spec).                *)
(***************************************************************************)
ExplanationChunks == ChunksOf(Events, "explanation_chunk")
MappingChunks == ChunksOf(Events, "mapping_chunk")
DiagramChunks == ChunksOf(Events, "diagram_chunk")

\* C18: the text accumulated in each phase is the concatenation of the
\* phase's chunk events in order; phases 2 and 3 are called with the
\* concatenated explanation chunks (phase 3 also with the extraction from the
\* concatenated mapping chunks), and a complete event carries that
\* explanation, that extraction, and the link rewriter's result for the
\* concatenated diagram chunks without fences and the snapshot's default
\* branch.
C18_ChunksMakeTheTexts ==
    Streaming
       => LET explanation == ExplanationChunks
              mapping == MappingChunks
              diagram == DiagramChunks
          IN  /\ run[1].explanation = explanation
              /\ run[1].full_second_response = mapping
              /\ run[1].mermaid_code =
                    IF run[1].completed = 3 THEN strip_fences(diagram) ELSE diagram
              /\ \A n \in 1..Len(run[1].calls) :
                    LET c == run[1].calls[n]
                    IN  /\ c.phase \in {2, 3} => c.data.explanation = explanation
                        /\ c.phase = 3
                              => c.data.component_mapping
                                    = extract_component_mapping(mapping)
              /\ \A i \in 1..Len(Events) :
                    IsStatus(Events[i], "complete")
                       => Events[i] =
                            CompleteEvent(
                              process_click_events(strip_fences(diagram),
                                  run[1].body.provider, run[1].body.username,
                                  run[1].body.repo, run[1].repo_data.default_branch),
                              explanation,
                              extract_component_mapping(mapping))

\* A completed run with two chunks in phases 1 and 2 and a rewritten link
C18_Witness ==
    /\ Streaming /\ Events # <<>> /\ IsStatus(LastEvent, "complete")
    /\ LastEvent.explanation = <<"B","A","D","_">> \o Ok
    /\ MappingChunks = start_tag \o end_tag /\ LastEvent.mapping = start_tag
    /\ Contains(LastEvent.diagram, GithubHost \o Acme)
    /\ Contains(LastEvent.diagram, Dev)

(***************************************************************************)
(* A /stream run whose snapshot fetch fails (specification SpecCache).     *)
(***************************************************************************)
\* The message of the exception a forge answer leads to
FailureOf(o) ==
    IF o.branch_status = 0 THEN "Connection error"
    ELSE IF o.tree_status # 200 THEN "Could not fetch repository file tree."
    ELSE IF o.readme_status = 404 THEN "No README found for the specified repository."
    ELSE "Failed to fetch README: 500"

\* C19: a /stream run whose snapshot fetch fails emits one event only, the
\* error event with the message of the failure; there is no started event,
\* no token count and no LLM call.
C19_FetchFailureOnlyEvent ==
    (Streaming /\ FetchFailed)
       => /\ Events = <<ErrorEvent(FailureOf(run[1].remote), -1)>>
          /\ run[1].pc = "done"
          /\ run[1].counted = 0 /\ run[1].token_count = -1
          /\ run[1].calls = <<>>

\* A run that found no README
C19_Witness ==
    /\ Streaming /\ FetchFailed /\ run[1].remote.readme_status = 404
    /\ Events = <<ErrorEvent("No README found for the specified repository.", -1)>>

(***************************************************************************)
(* Interleaved runs (specification SpecConc).                              *)
(***************************************************************************)
SentEvent(phase) ==
    CASE phase = 1 -> StatusEvent("explanation_sent",
                                  "Sending explanation request to o4-mini...")
      [] phase = 2 -> StatusEvent("mapping_sent",
                                  "Sending component mapping request to o4-mini...")
      [] phase = 3 -> StatusEvent("diagram_sent",
                                  "Sending diagram generation request to o4-mini...")
StreamingEvent(phase) ==
    CASE phase = 1 -> StatusEvent("explanation", "Analyzing repository structure...")
      [] phase = 2 -> StatusEvent("mapping", "Creating component mapping...")
      [] phase = 3 -> StatusEvent("diagram", "Generating diagram...")
ChunkStatus(phase) ==
    CASE phase = 1 -> "explanation_chunk"
      [] phase = 2 -> "mapping_chunk"
      [] phase = 3 -> "diagram_chunk"

\* What the LLM delivered to a run in a phase, every chunk being one character
Delivered(rec, phase) ==
    CASE phase = 1 -> rec.explanation
      [] phase = 2 -> rec.full_second_response
      [] phase = 3 -> rec.mermaid_code

\* The events of a phase whose call has been issued
PhaseEvents(rec, phase) ==
    <<SentEvent(phase), StreamingEvent(phase)>>
       \o [i \in 1..Len(Delivered(rec, phase)) |->
             ChunkEvent(ChunkStatus(phase), <<Delivered(rec, phase)[i]>>)]

RECURSIVE PhasesBefore(_, _)
PhasesBefore(rec, phase) ==
    IF phase <= 1 THEN <<StatusEvent("started", "Starting generation process...")>>
    ELSE PhasesBefore(rec, phase - 1) \o PhaseEvents(rec, phase - 1)

\* The events of a run on its own, from what it was given: its request, the
\* snapshot or the failure of its fetch, the chunks and the exception the LLM
\* delivered to it, and how far it has come
SoloEvents(rec) ==
    CASE rec.pc = "fetch" -> <<>>
      [] rec.pc = "admit" -> PhasesBefore(rec, 1)
      [] rec.pc = "sent" -> PhasesBefore(rec, rec.phase) \o <<SentEvent(rec.phase)>>
      [] rec.pc = "call" ->
           PhasesBefore(rec, rec.phase)
              \o <<SentEvent(rec.phase), StreamingEvent(rec.phase)>>
      [] rec.pc = "stream" -> PhasesBefore(rec, rec.phase) \o PhaseEvents(rec, rec.phase)
      [] rec.pc = "done" /\ rec.repo_data = NoData ->
           <<ErrorEvent(FailureOf(rec.remote), -1)>>
      [] rec.pc = "done" /\ rec.repo_data # NoData /\ rec.phase = 0 ->
           PhasesBefore(rec, 1) \o <<ErrorEvent(ErrTokenizer, -1)>>
      [] rec.pc = "done" /\ rec.phase > 0 /\ rec.raised # "None" ->
           PhasesBefore(rec, rec.phase) \o PhaseEvents(rec, rec.phase)
              \o <<ErrorEvent(rec.raised, -1)>>
      [] rec.pc = "done" /\ rec.phase = 3 /\ rec.raised = "None" ->
           PhasesBefore(rec, 3) \o PhaseEvents(rec, 3)
              \o <<CompleteEvent(
                     process_click_events(rec.mermaid_code, rec.body.provider,
                         rec.body.username, rec.body.repo,
                         rec.repo_data.default_branch),
                     rec.explanation,
                     extract_component_mapping(rec.full_second_response))>>

\* The texts and chunk events of run r hold chunks delivered to r only
OwnOnly(r) ==
    /\ \A phase \in {1, 2, 3} :
          \A i \in 1..Len(Delivered(run[r], phase)) :
             <<Delivered(run[r], phase)[i]>> \in OwnChunks(r)
    /\ \A i \in 1..Len(run[r].events) :
          "chunk" \in DOMAIN run[r].events[i] => run[r].events[i].chunk \in OwnChunks(r)
    /\ \A n \in 1..Len(run[r].calls) :
          run[r].calls[n].phase \in {2, 3}
             => run[r].calls[n].data.explanation = run[r].explanation

RunsAlone ==
    \A r \in Runs :
       (run[r].kind = "stream" /\ run[r].response = [stream |-> TRUE])
          => (OwnOnly(r) /\ run[r].events = SoloEvents(run[r]))

\* A step of one run leaves the other runs as they are
Isolation ==
    \A r \in Runs : run[r]' # run[r] => \A q \in Runs \ {r} : run[q]' = run[q]

\* C20: when runs interleave, the texts and events of each run hold its own
\* chunks only, the events of each run are those it emits on its own for the
\* same request, snapshot and LLM output, and a step of one run changes
\* nothing of another run.
C20_RunsIndependent == []RunsAlone /\ [][Isolation]_vars

\* Both runs are streaming phase 2 at once, run 2 served from the snapshot
\* run 1 fetched
C20_Witness ==
    /\ \A r \in Runs : run[r].pc = "stream" /\ run[r].phase = 2 /\ run[r].nchunks = 1
    /\ CacheKey(run[1].body) = CacheKey(run[2].body)
    /\ run[1].fetched = 1 /\ run[2].fetched = 0
    /\ run[1].explanation = <<"a", "a">> /\ run[2].explanation = <<"b">>

====
